---- MODULE Spec2Model ----
(***************************************************************************)
(* Pineapple OFC web client: the round placement state machine.           *)
(*                                                                         *)
(* The repository holds three variants of the client:                     *)
(*   "row"    src/unnamed/part_000          drag and drop onto board rows  *)
(*   "zone"   src/src/web/static/game.js    lines 1-357, labelled zones    *)
(*   "button" src/src/web/static/game.js    lines 359-697, row pickers     *)
(* One behaviour of the model runs one variant (chosen in Init).          *)
(*                                                                         *)
(* Card indices are zero based, as in the code.  A hand is a sequence of  *)
(* card identifiers; hand index i is element i+1 of the sequence.         *)
(* The server is an external collaborator: its answers are drawn from     *)
(* small sets.  A user gesture is possible when the handler it triggers   *)
(* is registered on an element that exists and is not inside a hidden     *)
(* action area; the loading indicator does not block gestures.  The text  *)
(* of the status bar and the loading indicator are presentation only and  *)
(* are not part of the state.                                              *)
(***************************************************************************)
EXTENDS Bags, FiniteSets, Integers, Sequences, TLC

(* ------------------------------ bounds -------------------------------- *)
\* games the server creates in one visit of the page
MaxGames == 2
\* games the server creates in a visit that loaded a stored total
MaxGamesStored == 1
\* requests that may be outstanding at the same time
MaxInFlight == 2

(* ------------------------- program constants -------------------------- *)
FrontMax == 3
OtherMax == 5
DiscardCap == 1
OpeningHandSize == 5
DrawHandSize == 3

Variants == {"row", "zone", "button"}
RowNames == <<"front", "middle", "back">>
RowSet == {"front", "middle", "back"}

\* const max = row === 'front' ? 3 : 5;
RowMax(row) == IF row = "front" THEN FrontMax ELSE OtherMax

\* const cap = { front: 3, middle: 5, back: 5, discard: 1 }[name];
ZoneCap(name) == IF name = "discard" THEN DiscardCap ELSE RowMax(name)

Range(s) == {s[k] : k \in 1..Len(s)}

\* the indices of a hand of n cards
Indices(cards) == 0..(Len(cards) - 1)

NumStr(k) ==
  CASE k = 0 -> "0" [] k = 1 -> "1" [] k = 2 -> "2" [] k = 3 -> "3"
    [] k = 4 -> "4" [] k = 5 -> "5" [] OTHER -> "many"

\* row.charAt(0).toUpperCase() + row.slice(1)
Capitalize(row) ==
  CASE row = "front" -> "Front" [] row = "middle" -> "Middle"
    [] row = "back" -> "Back" [] row = "discard" -> "Discard" [] OTHER -> row

(* ------------------------- server answers ----------------------------- *)
EmptyBoard == [front |-> 0, middle |-> 0, back |-> 0]
FullBoard == [front |-> FrontMax, middle |-> OtherMax, back |-> OtherMax]
\* boards the server reports at the start of a draw turn (cards per row)
DrawBoards == { [front |-> 3, middle |-> 2, back |-> 0],
                [front |-> 1, middle |-> 5, back |-> 5] }

\* the hands the server deals in game g: five cards to open, three on a draw
OpeningHand(g) == [k \in 1..OpeningHandSize |-> 10 * g + k]
DrawHand(g) == [k \in 1..DrawHandSize |-> 10 * g + OpeningHandSize + k]

(* ---------------- row variant: src/unnamed/part_000 ------------------- *)
\* let boardPlacements = { front: [], middle: [], back: [] };
EmptyPlacements == [front |-> <<>>, middle |-> <<>>, back |-> <<>>]

\* a removal that clears the front row only
removeFromPlacementsFrontOnly(bp, idx) ==
  [bp EXCEPT !.front = SelectSeq(bp.front, LAMBDA i : i # idx)]

\* boardPlacements[row] = boardPlacements[row].filter(i => i !== idx), each row
removeFromPlacements(bp, idx) ==
  [front  |-> SelectSeq(bp.front,  LAMBDA i : i # idx),
   middle |-> SelectSeq(bp.middle, LAMBDA i : i # idx),
   back   |-> SelectSeq(bp.back,   LAMBDA i : i # idx)]

\* new Set([...front, ...middle, ...back])
getAllPlacedIndices(bp) == Range(bp.front) \cup Range(bp.middle) \cup Range(bp.back)

\* existing + current >= max
RowIsFull(bp, board, row) == board[row] + Len(bp[row]) >= RowMax(row)

\* the ledger after placeCardOnRow(idx, row)
placeCardOnRow(bp, board, idx, row) ==
  IF RowIsFull(bp, board, row)
  THEN bp
  ELSE [removeFromPlacements(bp, idx) EXCEPT ![row] = Append(@, idx)]

\* a return to the hand that empties the rows
returnCardToHandAll(bp, idx) == [front |-> <<>>, middle |-> <<>>, back |-> <<>>]

\* the ledger after returnCardToHand(idx)
returnCardToHand(bp, idx) == removeFromPlacements(bp, idx)

\* the board rows without a placed card drawn
EmptyDom == [front |-> {}, middle |-> {}, back |-> {}]

\* position of the first index of the list that is not an index of the hand, 0
\* when there is none: makeCard(currentCards[idx]) throws on it
FirstMissing(list, cards) ==
  LET bad == {k \in 1..Len(list) : list[k] >= Len(cards)}
  IN IF bad = {} THEN 0 ELSE CHOOSE k \in bad : \A j \in bad : k <= j

\* renderPlayerBoard: front, middle, back in turn, each emptied and redrawn from
\* the ledger; when makeCard throws, the row it was drawing keeps the cards
\* already appended and the rows after it keep what was drawn before
renderPlayerBoard(bp, cards, dom) ==
  LET f == FirstMissing(bp.front, cards)
      m == FirstMissing(bp.middle, cards)
      b == FirstMissing(bp.back, cards)
      Drawn(list, k) == {list[j] : j \in 1..(k - 1)}
  IN IF f > 0
     THEN [threw |-> TRUE,
           dom |-> [front |-> Drawn(bp.front, f), middle |-> dom.middle,
                    back |-> dom.back]]
     ELSE IF m > 0
     THEN [threw |-> TRUE,
           dom |-> [front |-> Range(bp.front), middle |-> Drawn(bp.middle, m),
                    back |-> dom.back]]
     ELSE IF b > 0
     THEN [threw |-> TRUE,
           dom |-> [front |-> Range(bp.front), middle |-> Range(bp.middle),
                    back |-> Drawn(bp.back, b)]]
     ELSE [threw |-> FALSE,
           dom |-> [front |-> Range(bp.front), middle |-> Range(bp.middle),
                    back |-> Range(bp.back)]]

totalPlaced(bp) == Len(bp.front) + Len(bp.middle) + Len(bp.back)

\* const required = isInitial ? currentCards.length : currentCards.length - 1;
required(init, cards) == IF init THEN Len(cards) ELSE Len(cards) - 1

PlaceMore(k) ==
  "Place " \o NumStr(k) \o " more card" \o (IF k > 1 THEN "s" ELSE "") \o "."

\* updateConfirmButton of the row variant: the confirm button and the hint
updateConfirmButtonRow(actionMode, bp, cards, init, hint0) ==
  IF ~actionMode
  THEN [disabled |-> TRUE, hint |-> hint0]
  ELSE LET unplaced == Len(cards) - totalPlaced(bp)
           req == required(init, cards)
       IN [disabled |-> (totalPlaced(bp) # req),
           hint |-> IF ~init
                    THEN IF unplaced > 1 THEN PlaceMore(req - totalPlaced(bp))
                         ELSE IF unplaced = 1
                              THEN "The last card will be automatically discarded."
                              ELSE ""
                    ELSE IF unplaced > 0 THEN PlaceMore(unplaced) ELSE ""]

\* boardPlacements[row].forEach(idx => placements.push({ card_idx: idx, row }))
RowEntries(bp, row) ==
  [k \in 1..Len(bp[row]) |-> [card_idx |-> bp[row][k], row |-> row]]

\* an auto-discard that takes the first card of the hand, placed or not
AutoDiscardFirstCard(bp, cards) == << [card_idx |-> 0, row |-> "discard"] >>

\* the first index of the hand that is on no row, as a discard entry
AutoDiscard(bp, cards) ==
  LET unplaced == Indices(cards) \ getAllPlacedIndices(bp)
  IN IF unplaced = {}
     THEN <<>>
     ELSE << [card_idx |-> CHOOSE i \in unplaced : \A j \in unplaced : i <= j,
              row |-> "discard"] >>

\* the placements list submitPlay of the row variant sends
buildPlacementsRow(bp, cards, init) ==
  RowEntries(bp, "front") \o RowEntries(bp, "middle") \o RowEntries(bp, "back")
    \o (IF ~init THEN AutoDiscard(bp, cards) ELSE <<>>)

(* ------- zone and button variants: src/src/web/static/game.js --------- *)
\* let assignments = {};
EmptyAssignments == [i \in {} |-> ""]

\* moveCard: delete assignments[idx] for the pool, assignments[idx] = toZone otherwise
moveCard(asg, idx, toZone) ==
  IF toZone = "pool"
  THEN [i \in (DOMAIN asg) \ {idx} |-> asg[i]]
  ELSE [i \in (DOMAIN asg) \cup {idx} |-> IF i = idx THEN toZone ELSE asg[i]]

\* assignCard: assignments[idx] = row
assignCard(asg, idx, row) ==
  [i \in (DOMAIN asg) \cup {idx} |-> IF i = idx THEN row ELSE asg[i]]

\* counts[r] || 0
CountOf(asg, r) == Cardinality({i \in DOMAIN asg : asg[i] = r})

\* validateAssignments of the zone variant: the verdict and the hint it sets
validateAssignmentsZone(asg, cards, init) ==
  IF Cardinality(DOMAIN asg) < Len(cards)
  THEN [ok |-> FALSE, hint |-> "Place all cards before confirming."]
  ELSE IF init /\ CountOf(asg, "front") > FrontMax
  THEN [ok |-> FALSE, hint |-> "Front takes at most 3 cards."]
  ELSE IF ~init /\ CountOf(asg, "discard") # DiscardCap
  THEN [ok |-> FALSE, hint |-> "Discard exactly 1 card."]
  ELSE [ok |-> TRUE, hint |-> ""]

\* validateAssignments of the button variant
validateAssignmentsButton(asg, cards, init) ==
  IF Cardinality(DOMAIN asg) < Len(cards)
  THEN [ok |-> FALSE, hint |-> "Assign all cards before confirming."]
  ELSE IF init /\ CountOf(asg, "front") > FrontMax
  THEN [ok |-> FALSE, hint |-> "Front can hold at most 3 cards."]
  ELSE IF ~init /\ CountOf(asg, "discard") # DiscardCap
  THEN [ok |-> FALSE, hint |-> "You must discard exactly 1 card."]
  ELSE [ok |-> TRUE, hint |-> ""]

\* updateConfirmButton of the zone variant
updateConfirmButtonZone(asg, cards, init, hint0) ==
  IF Cardinality(DOMAIN asg) # Len(cards)
  THEN [disabled |-> TRUE, hint |-> hint0]
  ELSE IF init /\ CountOf(asg, "front") > FrontMax
  THEN [disabled |-> TRUE, hint |-> "Front takes at most 3 cards."]
  ELSE IF ~init /\ CountOf(asg, "discard") # DiscardCap
  THEN [disabled |-> TRUE, hint |-> "Discard exactly 1 card."]
  ELSE [disabled |-> FALSE, hint |-> ""]

\* updateConfirmButton of the button variant
updateConfirmButtonButton(asg, cards, init, hint0) ==
  IF Cardinality(DOMAIN asg) # Len(cards)
  THEN [disabled |-> TRUE, hint |-> hint0]
  ELSE IF init /\ CountOf(asg, "front") > FrontMax
  THEN [disabled |-> TRUE, hint |-> "Front can hold at most 3 cards."]
  ELSE IF ~init /\ CountOf(asg, "discard") # DiscardCap
  THEN [disabled |-> TRUE, hint |-> "Discard exactly 1 card."]
  ELSE [disabled |-> FALSE, hint |-> ""]

\* Object.entries(assignments): integer keys in ascending order
RECURSIVE EntriesOf(_, _)
EntriesOf(asg, keys) ==
  IF keys = {}
  THEN <<>>
  ELSE LET k == CHOOSE i \in keys : \A j \in keys : i <= j
       IN << [card_idx |-> k, row |-> asg[k]] >> \o EntriesOf(asg, keys \ {k})

\* a mapping that sends the row entries only
buildPlacementsZoneRowsOnly(asg) ==
  EntriesOf(asg, {i \in DOMAIN asg : asg[i] # "discard"})

\* Object.entries(assignments).map(([idx, row]) => ({ card_idx: parseInt(idx), row }))
buildPlacementsZone(asg) == EntriesOf(asg, DOMAIN asg)

(* ------------------------------ state --------------------------------- *)
VARIABLES
  variant,          \* which of the three clients runs
  gameId,           \* let gameId = null (0 stands for null)
  currentCards,     \* let currentCards = []
  playerBoard,      \* committed cards per row as last reported by the server
                    \* (currentServerBoard in the row variant, the rendered
                    \* player board in the other two)
  boardPlacements,  \* row variant: the ledger, a list of indices per row
  assignments,      \* zone and button variants: the ledger, card_idx -> zone
  isInitial,        \* isInitial / isInitialTurn
  isActionMode,     \* row variant: let isActionMode = false
  btnDisabled,      \* $('btn-confirm').disabled
  hint,             \* $('placement-hint').textContent
  actionHidden,     \* $('action-area') carries class hidden
  gameOverHidden,   \* $('game-over') carries class hidden
  rowDrop,          \* row variant: drop listeners are on the three board rows
  poolDrop,         \* row variant: the drop listener is on the hand pool
  handDom,          \* indices of the card elements in the hand area
  boardDom,         \* row variant: indices of the draggable card elements drawn
                    \* on each board row
  pickedUp,         \* row variant: the indices a drag in progress may carry, those
                    \* that had a draggable element at some moment since the last
                    \* gesture (dragstart stores the index, the drop reads it)
  zonesDom,         \* zone variant: drop zones built; button variant: picker rows
  inflight,         \* bag of requests sent and not yet answered
  serverGames,      \* games the server has created
  globalScore,      \* row variant: let globalScore = { player: 0, ai: 0 }
  carried,          \* history: the total loadGlobalScore found, until the next
                    \* resetGlobalScore
  applied,          \* history: bag of the games whose game_over answer applyState
                    \* of the row variant received since the last resetGlobalScore
  lastEvent         \* the handler that ran last, with its arguments and outcome

vars == << variant, gameId, currentCards, playerBoard, boardPlacements, assignments,
           isInitial, isActionMode, btnDisabled, hint, actionHidden,
           gameOverHidden, rowDrop, poolDrop, handDom, boardDom, pickedUp,
           zonesDom, inflight, serverGames, globalScore, carried, applied,
           lastEvent >>

\* the running score and its history
score == << globalScore, carried, applied >>

NoState == [game_id |-> 0, phase |-> "", cards |-> <<>>, player_board |-> EmptyBoard]

\* op: the handler; rejected: it returned early; sent: it sent a play request with
\* these placements; state: the server state it applied; returned: it took an index
\* from a destination to the pool; moved: it took an index
\* from one destination to another; threw: an exception ended it
Event(op, rejected, sent, placements, state) ==
  [op |-> op, rejected |-> rejected, sent |-> sent, placements |-> placements,
   state |-> state, moved |-> FALSE, returned |-> FALSE, threw |-> FALSE]

Gesture(op, rejected) == Event(op, rejected, FALSE, <<>>, NoState)

\* a placement gesture that found the index on destination from and put it on to
Placement(op, from, to) ==
  [Gesture(op, FALSE) EXCEPT !.moved = (from # "pool" /\ to # "pool" /\ from # to),
                             !.returned = (from # "pool" /\ to = "pool")]

\* the row of the row ledger an index is on, "pool" when on none
rowOf(bp, idx) ==
  IF idx \in getAllPlacedIndices(bp)
  THEN CHOOSE r \in RowSet : idx \in Range(bp[r])
  ELSE "pool"

\* assignments[idx], "pool" when undefined
zoneOf(asg, idx) == IF idx \in DOMAIN asg THEN asg[idx] ELSE "pool"

Outstanding(kind) ==
  LET rs == {r \in BagToSet(inflight) : r.kind = kind}
      RECURSIVE Sum(_)
      Sum(S) == IF S = {} THEN 0
                ELSE LET r == CHOOSE x \in S : TRUE
                     IN CopiesIn(r, inflight) + Sum(S \ {r})
  IN Sum(rs)

\* a request in flight
NewGameRequest == [kind |-> "new_game", game_id |-> 0]
PlayRequest(g) == [kind |-> "play", game_id |-> g]

Send(req) == inflight' = inflight (+) SetToBag({req})
Answered(req) == inflight' = inflight (-) SetToBag({req})

(* ------------------- global running score (row variant) -------------- *)
NoScore == [player |-> 0, ai |-> 0]

\* scores of the game_over answer of game g
Scores(g) == [player |-> 3 * g - 4, ai |-> 4 - 3 * g]

\* const { scores } = state
ScoresOf(state) == Scores(state.game_id)

\* localStorage.getItem('ofc_score'): null (<<>>) on a first visit, else the
\* total << total >> an earlier page load stored
SavedScores == { <<>>, << [player |-> 3, ai |-> -3] >> }

\* if (saved) globalScore = JSON.parse(saved)
loadGlobalScore(saved) == IF saved = <<>> THEN NoScore ELSE saved[1]

\* globalScore.player += playerDelta; globalScore.ai += aiDelta
addToGlobalScore(gs, playerDelta, aiDelta) ==
  [player |-> gs.player + playerDelta, ai |-> gs.ai + aiDelta]

\* globalScore = { player: 0, ai: 0 }
resetGlobalScore == NoScore

Init ==
  /\ variant \in Variants
  /\ \E saved \in (IF variant = "row" THEN SavedScores ELSE { <<>> }) :
       /\ globalScore = loadGlobalScore(saved)
       /\ carried = loadGlobalScore(saved)
  /\ applied = EmptyBag
  /\ gameId = 0
  /\ currentCards = <<>>
  /\ playerBoard = EmptyBoard
  /\ boardPlacements = EmptyPlacements
  /\ assignments = EmptyAssignments
  /\ isInitial = FALSE
  /\ isActionMode = FALSE
  /\ btnDisabled = TRUE
  /\ hint = ""
  /\ actionHidden = TRUE
  /\ gameOverHidden = TRUE
  /\ rowDrop = FALSE
  /\ poolDrop = FALSE
  /\ handDom = {}
  /\ boardDom = EmptyDom
  /\ pickedUp = {}
  /\ zonesDom = {}
  /\ inflight = EmptyBag
  /\ serverGames = 0
  /\ lastEvent = Gesture("init", FALSE)

(* ------------------------------ drags --------------------------------- *)
\* the cards a row-variant user can pick up: those drawn on the board rows and,
\* while the action area is shown, those in the hand pool
DraggableRow ==
  boardDom.front \cup boardDom.middle \cup boardDom.back
    \cup (IF actionHidden THEN {} ELSE handDom)

\* a gesture ended: a drag that starts now carries a card drawn now
PickUpAfterGesture ==
  pickedUp' = IF variant = "row" THEN DraggableRow' ELSE {}

\* an answer was handled: a drag in progress still carries the index it took,
\* a drag that starts now carries a card drawn now
PickUpAfterAnswer ==
  pickedUp' = IF variant = "row" THEN pickedUp \cup DraggableRow' ELSE {}

(* --------------------------- user gestures ---------------------------- *)
\* newGame up to its await: hideGameOver, showLoading, POST /api/new_game
NewGame ==
  /\ BagCardinality(inflight) < MaxInFlight
  /\ serverGames + Outstanding("new_game") <
       (IF carried = NoScore THEN MaxGames ELSE MaxGamesStored)
  /\ gameOverHidden' = TRUE
  /\ Send(NewGameRequest)
  /\ lastEvent' = Gesture("newGame", FALSE)
  /\ UNCHANGED << variant, gameId, currentCards, playerBoard, boardPlacements,
                  assignments, isInitial, isActionMode, btnDisabled, hint,
                  actionHidden, rowDrop, poolDrop, handDom, zonesDom, serverGames >>
  /\ UNCHANGED score
  /\ UNCHANGED boardDom
  /\ PickUpAfterGesture

\* refreshUI of the row variant after the ledger became bp: renderPlayerBoard,
\* and unless it threw renderHandArea (in action mode) and updateConfirmButton
RefreshRow(bp) ==
  LET r == renderPlayerBoard(bp, currentCards, boardDom)
      u == updateConfirmButtonRow(isActionMode, bp, currentCards, isInitial, hint)
  IN /\ boardDom' = r.dom
     /\ IF r.threw
        THEN UNCHANGED << handDom, btnDisabled, hint >>
        ELSE /\ handDom' = IF isActionMode
                           THEN Indices(currentCards) \ getAllPlacedIndices(bp)
                           ELSE handDom
             /\ btnDisabled' = u.disabled
             /\ hint' = u.hint

\* onRowDrop -> placeCardOnRow(idx, row)
PlaceCardOnRow(idx, row) ==
  /\ variant = "row"
  /\ rowDrop
  /\ idx \in pickedUp
  /\ IF RowIsFull(boardPlacements, playerBoard, row)
     THEN /\ hint' = Capitalize(row) \o " row is full."
          /\ UNCHANGED << boardPlacements, handDom, boardDom, btnDisabled >>
     ELSE /\ boardPlacements' = placeCardOnRow(boardPlacements, playerBoard, idx, row)
          /\ RefreshRow(boardPlacements')
  /\ lastEvent' = IF RowIsFull(boardPlacements, playerBoard, row)
                  THEN Gesture("placeCardOnRow", TRUE)
                  ELSE [Placement("placeCardOnRow", rowOf(boardPlacements, idx), row)
                          EXCEPT !.threw = renderPlayerBoard(boardPlacements',
                                             currentCards, boardDom).threw]
  /\ UNCHANGED << variant, gameId, currentCards, playerBoard, assignments, isInitial,
                  isActionMode, actionHidden, gameOverHidden,
                  rowDrop, poolDrop, zonesDom, inflight, serverGames >>
  /\ UNCHANGED score
  /\ PickUpAfterGesture

\* onPoolDrop -> returnCardToHand(idx)
ReturnCardToHand(idx) ==
  /\ variant = "row"
  /\ poolDrop
  /\ ~actionHidden
  /\ idx \in pickedUp
  /\ boardPlacements' = returnCardToHand(boardPlacements, idx)
  /\ RefreshRow(boardPlacements')
  /\ lastEvent' = [Placement("returnCardToHand", rowOf(boardPlacements, idx), "pool")
                    EXCEPT !.threw = renderPlayerBoard(boardPlacements',
                                       currentCards, boardDom).threw]
  /\ UNCHANGED << variant, gameId, currentCards, playerBoard, assignments, isInitial,
                  isActionMode, actionHidden, gameOverHidden,
                  rowDrop, poolDrop, zonesDom, inflight, serverGames >>
  /\ UNCHANGED score
  /\ PickUpAfterGesture

\* a zone's drop listener -> moveCard(idx, toZone)
MoveCard(idx, toZone) ==
  /\ variant = "zone"
  /\ ~actionHidden
  /\ toZone \in zonesDom
  /\ idx \in handDom
  /\ assignments' = moveCard(assignments, idx, toZone)
  /\ LET u == updateConfirmButtonZone(assignments', currentCards, isInitial, hint)
     IN /\ btnDisabled' = u.disabled
        /\ hint' = u.hint
  /\ lastEvent' = Placement("moveCard", zoneOf(assignments, idx), toZone)
  /\ UNCHANGED << variant, gameId, currentCards, playerBoard, boardPlacements,
                  isInitial, isActionMode, actionHidden,
                  gameOverHidden, rowDrop, poolDrop, handDom, zonesDom, inflight,
                  serverGames >>
  /\ UNCHANGED score
  /\ UNCHANGED << boardDom, pickedUp >>

\* a row button's click listener -> assignCard(idx, row)
AssignCard(idx, row) ==
  /\ variant = "button"
  /\ ~actionHidden
  /\ row \in zonesDom
  /\ idx \in handDom
  /\ assignments' = assignCard(assignments, idx, row)
  /\ LET u == updateConfirmButtonButton(assignments', currentCards, isInitial, hint)
     IN /\ btnDisabled' = u.disabled
        /\ hint' = u.hint
  /\ lastEvent' = Placement("assignCard", zoneOf(assignments, idx), row)
  /\ UNCHANGED << variant, gameId, currentCards, playerBoard, boardPlacements,
                  isInitial, isActionMode, actionHidden,
                  gameOverHidden, rowDrop, poolDrop, handDom, zonesDom, inflight,
                  serverGames >>
  /\ UNCHANGED score
  /\ UNCHANGED << boardDom, pickedUp >>

(* ------------------------------ confirm ------------------------------- *)
\* a click on the confirm button of the row variant: submitPlay up to its await
SubmitPlayRow ==
  /\ variant = "row"
  /\ ~btnDisabled /\ ~actionHidden
  /\ BagCardinality(inflight) < MaxInFlight
  /\ btnDisabled' = TRUE
  /\ isActionMode' = FALSE
  /\ rowDrop' = FALSE
  /\ Send(PlayRequest(gameId))
  /\ lastEvent' = Event("submitPlay", FALSE, TRUE,
                        buildPlacementsRow(boardPlacements, currentCards, isInitial),
                        NoState)
  /\ UNCHANGED << variant, gameId, currentCards, playerBoard, boardPlacements,
                  assignments, isInitial, hint, actionHidden, gameOverHidden,
                  poolDrop, handDom, zonesDom, serverGames >>
  /\ UNCHANGED score
  /\ UNCHANGED boardDom
  /\ PickUpAfterGesture

\* submitPlay of the zone and button variants, v the verdict of validateAssignments
SubmitValidated(v) ==
  /\ ~btnDisabled /\ ~actionHidden
  /\ v.ok => BagCardinality(inflight) < MaxInFlight
  /\ hint' = v.hint
  /\ IF v.ok
     THEN /\ btnDisabled' = TRUE
          /\ Send(PlayRequest(gameId))
          /\ lastEvent' = Event("submitPlay", FALSE, TRUE,
                                buildPlacementsZone(assignments), NoState)
     ELSE /\ lastEvent' = Event("submitPlay", TRUE, FALSE, <<>>, NoState)
          /\ UNCHANGED << btnDisabled, inflight >>
  /\ UNCHANGED << variant, gameId, currentCards, playerBoard, boardPlacements,
                  assignments, isInitial, isActionMode, actionHidden,
                  gameOverHidden, rowDrop, poolDrop, handDom, zonesDom, serverGames >>
  /\ UNCHANGED score
  /\ UNCHANGED << boardDom, pickedUp >>

SubmitPlayZone ==
  /\ variant = "zone"
  /\ SubmitValidated(validateAssignmentsZone(assignments, currentCards, isInitial))

SubmitPlayButton ==
  /\ variant = "button"
  /\ SubmitValidated(validateAssignmentsButton(assignments, currentCards, isInitial))

(* ----------------------------- applyState ----------------------------- *)
Placing(state) == state.phase \in {"init_human", "human_turn"}

\* zones and row buttons that offer discard on every turn
DestinationsOfAnyTurn(init) == RowSet \cup {"discard"}

\* ['front','middle','back'] on the opening turn, plus 'discard' on a draw turn
DestinationsOf(init) == IF init THEN RowSet ELSE RowSet \cup {"discard"}

\* an applyState that keeps the ledger of the previous turn
applyStateLedgerKeeps(state, bp) == bp

\* the row ledger after applyState: boardPlacements = { front: [], ... } when placing
applyStateLedger(state, bp) == IF Placing(state) THEN EmptyPlacements ELSE bp

\* assignments = {} when placing
applyStateAssignments(state, asg) == IF Placing(state) THEN EmptyAssignments ELSE asg

\* applyState of the row variant throws: refreshUI of the game_over branch meets
\* a ledger index that is not in the hand
applyStateThrows(state) ==
  /\ variant = "row"
  /\ ~Placing(state)
  /\ renderPlayerBoard(boardPlacements, currentCards, boardDom).threw

\* applyState of the row variant
ApplyStateRow(state) ==
  /\ gameId' = state.game_id
  /\ playerBoard' = state.player_board
  /\ boardPlacements' = applyStateLedger(state, boardPlacements)
  /\ IF Placing(state)
     THEN LET init == (state.phase = "init_human")
              u == updateConfirmButtonRow(TRUE, boardPlacements', state.cards, init, hint)
          IN /\ isInitial' = init
             /\ isActionMode' = TRUE
             /\ currentCards' = state.cards
             /\ handDom' = Indices(state.cards) \ getAllPlacedIndices(boardPlacements')
             /\ btnDisabled' = u.disabled
             /\ hint' = u.hint
             /\ actionHidden' = FALSE
             /\ rowDrop' = TRUE
             /\ poolDrop' = TRUE
             /\ boardDom' = renderPlayerBoard(boardPlacements', state.cards, boardDom).dom
             /\ UNCHANGED << gameOverHidden, score >>
     ELSE LET r == renderPlayerBoard(boardPlacements, currentCards, boardDom)
          IN /\ actionHidden' = TRUE
             /\ boardDom' = r.dom
             /\ applied' = applied (+) SetToBag({state.game_id})
             /\ IF r.threw
                \* refreshUI threw: showGameOver is not reached and the catch
                \* branch of submitPlay runs
                THEN /\ btnDisabled' = FALSE
                     /\ isActionMode' = TRUE
                     /\ rowDrop' = TRUE
                     /\ poolDrop' = TRUE
                     /\ UNCHANGED << gameOverHidden, globalScore, carried >>
                ELSE /\ isActionMode' = FALSE
                     /\ rowDrop' = FALSE
                     /\ btnDisabled' = TRUE
                     /\ gameOverHidden' = FALSE
                     /\ globalScore' = addToGlobalScore(globalScore,
                                          ScoresOf(state).player, ScoresOf(state).ai)
                     /\ UNCHANGED << poolDrop, carried >>
             /\ UNCHANGED << isInitial, currentCards, handDom, hint >>
  /\ UNCHANGED << assignments, zonesDom >>
  /\ PickUpAfterAnswer

\* applyState of the zone variant (u: what updateConfirmButton computes at its end)
ApplyStateZone(state) ==
  /\ gameId' = state.game_id
  /\ playerBoard' = state.player_board
  /\ assignments' = applyStateAssignments(state, assignments)
  /\ IF Placing(state)
     THEN LET init == (state.phase = "init_human")
              u == updateConfirmButtonZone(assignments', state.cards, init, hint)
          IN /\ isInitial' = init
             /\ currentCards' = state.cards
             /\ zonesDom' = DestinationsOf(init) \cup {"pool"}
             /\ handDom' = Indices(state.cards)
             /\ btnDisabled' = u.disabled
             /\ hint' = u.hint
             /\ actionHidden' = FALSE
             /\ UNCHANGED gameOverHidden
     ELSE /\ actionHidden' = TRUE
          /\ gameOverHidden' = FALSE
          /\ UNCHANGED << isInitial, currentCards, zonesDom, handDom, btnDisabled, hint >>
  /\ UNCHANGED << boardPlacements, isActionMode, rowDrop, poolDrop, boardDom,
                  pickedUp, score >>

\* applyState of the button variant
ApplyStateButton(state) ==
  /\ gameId' = state.game_id
  /\ playerBoard' = state.player_board
  /\ assignments' = applyStateAssignments(state, assignments)
  /\ IF Placing(state)
     THEN LET init == (state.phase = "init_human")
              u == updateConfirmButtonButton(assignments', state.cards, init, hint)
          IN /\ isInitial' = init
             /\ currentCards' = state.cards
             /\ zonesDom' = DestinationsOf(init)
             /\ handDom' = Indices(state.cards)
             /\ btnDisabled' = u.disabled
             /\ hint' = u.hint
             /\ actionHidden' = FALSE
             /\ UNCHANGED gameOverHidden
     ELSE /\ actionHidden' = TRUE
          /\ gameOverHidden' = FALSE
          /\ UNCHANGED << isInitial, currentCards, zonesDom, handDom, btnDisabled, hint >>
  /\ UNCHANGED << boardPlacements, isActionMode, rowDrop, poolDrop, boardDom,
                  pickedUp, score >>

ApplyState(state) ==
  CASE variant = "row" -> ApplyStateRow(state)
    [] variant = "zone" -> ApplyStateZone(state)
    [] OTHER -> ApplyStateButton(state)

(* -------------------------- server answers ---------------------------- *)
\* what the server may answer to new_game: the opening hand of a new game
NewGameStates ==
  { [game_id |-> serverGames + 1, phase |-> "init_human",
     cards |-> OpeningHand(serverGames + 1), player_board |-> EmptyBoard] }

\* what the server may answer to an accepted play of game g
PlayStates(g) ==
  { [game_id |-> g, phase |-> "human_turn", cards |-> DrawHand(g),
     player_board |-> b] : b \in DrawBoards }
  \cup
  { [game_id |-> g, phase |-> "game_over", cards |-> <<>>, player_board |-> FullBoard] }

\* newGame after its await: applyState(state), finally hideLoading
NewGameResponse ==
  \E state \in NewGameStates :
    /\ BagIn(NewGameRequest, inflight)
    /\ Answered(NewGameRequest)
    /\ serverGames' = serverGames + 1
    /\ ApplyState(state)
    /\ lastEvent' = Event("applyState", FALSE, FALSE, <<>>, state)
    /\ UNCHANGED variant

\* newGame after its await when fetch or r.json() throws
NewGameFailure ==
  /\ BagIn(NewGameRequest, inflight)
  /\ Answered(NewGameRequest)
  /\ lastEvent' = Gesture("newGameFailure", FALSE)
  /\ UNCHANGED << variant, gameId, currentCards, playerBoard, boardPlacements,
                  assignments, isInitial, isActionMode, btnDisabled, hint,
                  actionHidden, gameOverHidden, rowDrop, poolDrop, handDom, zonesDom,
                  serverGames >>
  /\ UNCHANGED score
  /\ UNCHANGED boardDom
  /\ PickUpAfterAnswer

\* submitPlay after its await, for the request req answered with state
PlayResponseTo(req, state) ==
  /\ req.kind = "play"
  /\ Answered(req)
  /\ ApplyState(state)
  /\ lastEvent' = [Event("applyState", FALSE, FALSE, <<>>, state)
                    EXCEPT !.threw = applyStateThrows(state)]
  /\ UNCHANGED << variant, serverGames >>

\* submitPlay after its await: the server accepted the placements
PlayResponse ==
  \E req \in BagToSet(inflight) : \E state \in PlayStates(req.game_id) :
    PlayResponseTo(req, state)

\* the part of submitPlay the error branch and the catch branch share
Reenable(req, op) ==
  /\ req.kind = "play"
  /\ Answered(req)
  /\ btnDisabled' = FALSE
  /\ IF variant = "row"
     THEN isActionMode' = TRUE /\ rowDrop' = TRUE /\ poolDrop' = TRUE
     ELSE UNCHANGED << isActionMode, rowDrop, poolDrop >>
  /\ lastEvent' = Gesture(op, FALSE)
  /\ UNCHANGED << variant, gameId, currentCards, playerBoard, boardPlacements,
                  assignments, isInitial, hint, actionHidden, gameOverHidden,
                  handDom, zonesDom, serverGames >>
  /\ UNCHANGED score
  /\ UNCHANGED boardDom
  /\ PickUpAfterAnswer

\* submitPlay after its await: state.error is set
PlayError ==
  \E req \in BagToSet(inflight) : Reenable(req, "playError")

\* submitPlay after its await: fetch or resp.json() threw
PlayFailure ==
  \E req \in BagToSet(inflight) : Reenable(req, "playFailure")

\* resetGlobalScore of the row variant
ResetGlobalScore ==
  /\ variant = "row"
  /\ globalScore' = resetGlobalScore
  /\ carried' = NoScore
  /\ applied' = EmptyBag
  /\ lastEvent' = Gesture("resetGlobalScore", FALSE)
  /\ UNCHANGED << variant, gameId, currentCards, playerBoard, boardPlacements,
                  assignments, isInitial, isActionMode, btnDisabled, hint,
                  actionHidden, gameOverHidden, rowDrop, poolDrop, handDom,
                  boardDom, zonesDom, inflight, serverGames >>
  /\ PickUpAfterGesture

\* the handlers of the three clients, a request may be sent while another is
\* outstanding
Next ==
  \/ NewGame
  \/ \E idx \in 0..(OpeningHandSize - 1), row \in RowSet : PlaceCardOnRow(idx, row)
  \/ \E idx \in 0..(OpeningHandSize - 1) : ReturnCardToHand(idx)
  \/ \E idx \in 0..(OpeningHandSize - 1), z \in RowSet \cup {"discard", "pool"} :
       MoveCard(idx, z)
  \/ \E idx \in 0..(OpeningHandSize - 1), row \in RowSet \cup {"discard"} :
       AssignCard(idx, row)
  \/ SubmitPlayRow
  \/ SubmitPlayZone
  \/ SubmitPlayButton
  \/ NewGameResponse
  \/ NewGameFailure
  \/ PlayResponse
  \/ PlayError
  \/ PlayFailure
  \/ ResetGlobalScore

Spec == Init /\ [][Next]_vars

\* the handlers of part_000, a request may be sent while another is outstanding
RowOverlapNext ==
  \/ NewGame
  \/ \E idx \in 0..(OpeningHandSize - 1), row \in RowSet : PlaceCardOnRow(idx, row)
  \/ \E idx \in 0..(OpeningHandSize - 1) : ReturnCardToHand(idx)
  \/ SubmitPlayRow
  \/ NewGameResponse
  \/ NewGameFailure
  \/ PlayResponse
  \/ PlayError
  \/ PlayFailure
  \/ ResetGlobalScore

\* part_000 is the script of the page
RowInit == Init /\ variant = "row"

RowOverlapSpec == RowInit /\ [][RowOverlapNext]_vars

\* the handlers of game.js, a request may be sent while another is outstanding
GameJsOverlapNext ==
  \/ NewGame
  \/ \E idx \in 0..(OpeningHandSize - 1), z \in RowSet \cup {"discard", "pool"} :
       MoveCard(idx, z)
  \/ \E idx \in 0..(OpeningHandSize - 1), row \in RowSet \cup {"discard"} :
       AssignCard(idx, row)
  \/ SubmitPlayZone
  \/ SubmitPlayButton
  \/ NewGameResponse
  \/ NewGameFailure
  \/ PlayResponse
  \/ PlayError
  \/ PlayFailure

\* game.js is the script of the page
GameJsInit == Init /\ variant # "row"

GameJsOverlapSpec == GameJsInit /\ [][GameJsOverlapNext]_vars

(* ===================== properties of the ledger ======================= *)
Destinations == RowSet \cup {"discard"}
GestureOps == {"placeCardOnRow", "returnCardToHand", "moveCard", "assignCard"}

\* the hand indices the ledger maps
LedgerKeys ==
  IF variant = "row" THEN getAllPlacedIndices(boardPlacements) ELSE DOMAIN assignments

\* countFor(d): pending entries on destination d
PendingCount(d) ==
  IF variant = "row"
  THEN IF d \in RowSet THEN Len(boardPlacements[d]) ELSE 0
  ELSE CountOf(assignments, d)

\* cards of earlier turns on row d
Committed(d) == IF d \in RowSet THEN playerBoard[d] ELSE 0

\* a hand is being placed: the action area is shown
InTurn == ~actionHidden

\* the most recent handler sent a play request
JustSent == lastEvent.op = "submitPlay" /\ lastEvent.sent

SentIndices == {lastEvent.placements[k].card_idx : k \in 1..Len(lastEvent.placements)}

\* a turn is being placed: the action area is shown and no play request is
\* outstanding
BeingPlaced == InTurn /\ Outstanding("play") = 0

\* a click on confirm would send the ledger
SubmissionAllowed ==
  /\ ~btnDisabled
  /\ variant = "zone" => validateAssignmentsZone(assignments, currentCards, isInitial).ok
  /\ variant = "button" =>
       validateAssignmentsButton(assignments, currentCards, isInitial).ok

\* every index of the hand is on front, middle or back
AllOnRows ==
  /\ LedgerKeys = Indices(currentCards)
  /\ variant # "row" => \A i \in DOMAIN assignments : assignments[i] \in RowSet

(* C1: within a turn, for each destination the pending entries plus the cards
   committed to that row never exceed its capacity (front 3, middle 5, back 5,
   discard 1). *)
C1_CapacityRespected ==
  InTurn => \A d \in Destinations : PendingCount(d) + Committed(d) <= ZoneCap(d)

(* C2: every placements list sent to the server contains each index of the
   current hand exactly once. *)
C2_SentCoversHand ==
  JustSent => /\ Len(lastEvent.placements) = Len(currentCards)
              /\ SentIndices = Indices(currentCards)

(* C3: while a play request is outstanding no user gesture changes the ledger. *)
C3_LedgerFrozenInFlight ==
  [][ (Outstanding("play") > 0 /\ lastEvent'.op \in GestureOps)
        => UNCHANGED << boardPlacements, assignments >> ]_vars

(* C4: while a play request is outstanding the confirm button stays disabled, so
   no second play request can be issued before the first is answered. *)
C4_ConfirmDisabledInFlight == Outstanding("play") > 0 => btnDisabled

\* the hint placeCardOnRow shows for a full row
CapacityHint(d) == Capitalize(d) \o " row is full."

(* C5: placing an index on a destination whose pending count plus committed
   cards equals its capacity leaves the ledger as it was and shows a capacity
   hint naming the destination. *)
C5_FullDestinationRejects ==
  [][ \A idx \in 0..(OpeningHandSize - 1) : \A d \in Destinations :
        ( /\ PendingCount(d) + Committed(d) = ZoneCap(d)
          /\ \/ d \in RowSet /\ PlaceCardOnRow(idx, d)
             \/ MoveCard(idx, d)
             \/ AssignCard(idx, d) )
        => /\ UNCHANGED << boardPlacements, assignments >>
           /\ hint' = CapacityHint(d) ]_vars

(* C6: the ledger's keys are indices of the current hand and no index is on two
   rows or twice on one row. *)
C6_LedgerWellFormed ==
  /\ LedgerKeys \subseteq Indices(currentCards)
  /\ totalPlaced(boardPlacements) = Cardinality(getAllPlacedIndices(boardPlacements))
  /\ \A i \in DOMAIN assignments : assignments[i] \in Destinations

(* C7: while an opening turn with a 5-card hand is being placed, submission is
   allowed iff all 5 indices are on front, middle or back and front holds at
   most 3 of them. *)
C7_OpeningSubmittable ==
  (isInitial /\ Len(currentCards) = OpeningHandSize /\ BeingPlaced)
    => (SubmissionAllowed <=> (AllOnRows /\ PendingCount("front") <= FrontMax))

\* a draw ledger with two indices on rows and the third in the pool
TwoOnRowsOneFree ==
  /\ ~isInitial /\ Len(currentCards) = DrawHandSize
  /\ LedgerKeys \subseteq Indices(currentCards)
  /\ Cardinality(LedgerKeys) = DrawHandSize - 1
  /\ totalPlaced(boardPlacements) = Cardinality(getAllPlacedIndices(boardPlacements))
  /\ \A i \in DOMAIN assignments : assignments[i] \in RowSet

\* the row an index of the ledger is on
DestinationOf(i) ==
  IF variant = "row"
  THEN CHOOSE r \in RowSet : i \in Range(boardPlacements[r])
  ELSE assignments[i]

\* the ledger as (index, destination) pairs
LedgerPairs == {[card_idx |-> i, row |-> DestinationOf(i)] : i \in LedgerKeys}

(* C8: on a draw turn a ledger with two indices on rows and the third
   unassigned is submittable in every variant, and the list sent from it is the
   two row placements plus the unassigned index with destination discard. *)
C8_SubmittableInEveryVariant ==
  /\ (TwoOnRowsOneFree /\ BeingPlaced) => SubmissionAllowed
  /\ (TwoOnRowsOneFree /\ JustSent)
       => /\ Len(lastEvent.placements) = DrawHandSize
          /\ Range(lastEvent.placements) =
               LedgerPairs \cup {[card_idx |-> i, row |-> "discard"] :
                                   i \in Indices(currentCards) \ LedgerKeys}

\* a draw ledger with one index on discard and the other two on rows
ExplicitDiscard ==
  /\ ~isInitial /\ Len(currentCards) = DrawHandSize
  /\ variant # "row"
  /\ DOMAIN assignments = Indices(currentCards)
  /\ CountOf(assignments, "discard") = 1
  /\ \A i \in DOMAIN assignments : assignments[i] \in Destinations

(* C9: on a draw turn a ledger with one index on discard and the other two on
   rows is submittable, and the placements sent are exactly its three pairs. *)
C9_ExplicitDiscardSentUnchanged ==
  /\ (ExplicitDiscard /\ BeingPlaced) => SubmissionAllowed
  /\ (ExplicitDiscard /\ JustSent)
       => /\ Len(lastEvent.placements) = DrawHandSize
          /\ Range(lastEvent.placements) = LedgerPairs

C9_Witness == ExplicitDiscard /\ JustSent

(* C10: right after a server state with a placing phase is applied the ledger is
   empty, the hand is the response's cards and the opening flag matches its
   phase. *)
C10_ApplyStateResetsTurn ==
  (lastEvent.op = "applyState" /\ Placing(lastEvent.state))
    => /\ boardPlacements = EmptyPlacements
       /\ assignments = EmptyAssignments
       /\ currentCards = lastEvent.state.cards
       /\ isInitial = (lastEvent.state.phase = "init_human")

\* a draw hand has been applied: the turn before it ended with a filled ledger
C10_Witness ==
  /\ lastEvent.op = "applyState"
  /\ lastEvent.state.phase = "human_turn"
  /\ currentCards = lastEvent.state.cards

(* ================== errors, failures and late answers ================= *)
\* the ledger, with the hand and the flag it is read with
Turn == << currentCards, isInitial, boardPlacements, assignments >>

\* placement input works: confirm is enabled and, in the row variant, the rows
\* and the pool take drops
PlacementInputEnabled ==
  /\ ~btnDisabled
  /\ variant = "row" => (isActionMode /\ rowDrop /\ poolDrop)

(* C11: when the server answers a submission with an error, the session is in
   the placing phase of the turn the submission was made in, with placement
   input re-enabled, the hand and the ledger are the submitted ones, and a
   confirm without a further gesture sends the ledger again. *)
C11_ErrorKeepsSubmittedLedger ==
  [][ \A req \in BagToSet(inflight) :
        Reenable(req, "playError")
          => /\ UNCHANGED Turn
             /\ InTurn' /\ gameId' = req.game_id
             /\ PlacementInputEnabled'
             /\ SubmissionAllowed' ]_vars

FailureOps == {"newGameFailure", "playFailure"}

\* a click on confirm reaches submitPlay
ConfirmPossible == ~btnDisabled /\ ~actionHidden

\* some gesture reaches placeCardOnRow, returnCardToHand, moveCard or assignCard
PlacementPossible ==
  CASE variant = "row" ->
         /\ pickedUp # {}
         /\ rowDrop \/ (poolDrop /\ ~actionHidden)
    [] OTHER -> ~actionHidden /\ zonesDom # {} /\ handDom # {}

(* C12: after a transport failure of newGame or submitPlay neither a placement
   nor a confirm is possible (the error phase, which only newGame leaves). *)
C12_FailureBlocksInput ==
  lastEvent.op \in FailureOps => (~ConfirmPossible /\ ~PlacementPossible)

\* the play request req carries the id of a game that a newGame has since
\* replaced
Superseded(req) == req.kind = "play" /\ req.game_id < gameId

(* C13: the answer to a superseded request is discarded: it changes neither the
   game id, the hand, the opening flag nor the ledger of the newer session. *)
C13_SupersededAnswerDiscarded ==
  [][ \A req \in BagToSet(inflight) : \A state \in PlayStates(req.game_id) :
        (Superseded(req) /\ PlayResponseTo(req, state))
          => UNCHANGED << gameId, Turn >> ]_vars

(* ======================= hint and ledger states ======================= *)
(* C14: while a turn is being placed, an empty placement hint means that the
   turn is submittable. *)
C14_EmptyHintMeansSubmittable ==
  (BeingPlaced /\ hint = "") => SubmissionAllowed

\* filled: the cards of the hand that are on front, middle or back
Filled == PendingCount("front") + PendingCount("middle") + PendingCount("back")

\* the ledger breaks no capacity
WithinCapacity ==
  \A d \in Destinations : PendingCount(d) + Committed(d) <= ZoneCap(d)

(* C15: during a turn the ledger is empty, partially placed (0 < filled <
   required) or ready (filled = required and valid): the cards on rows never
   exceed required (the hand size on the opening turn, one less on a draw turn)
   and a completely filled ledger is valid. *)
C15_EmptyPartialOrReady ==
  InTurn => /\ Filled <= required(isInitial, currentCards)
            /\ Filled = required(isInitial, currentCards) => WithinCapacity

(* ============== auto-discard and explicit discard compared ============ *)
\* a row ledger written as assignments, the cards left in the pool on discard
ExplicitForm(bp, cards) ==
  [i \in Indices(cards) |->
     IF i \in getAllPlacedIndices(bp)
     THEN CHOOSE r \in RowSet : i \in Range(bp[r])
     ELSE "discard"]

RECURSIVE Ascending(_)
Ascending(S) ==
  IF S = {} THEN <<>>
  ELSE LET k == CHOOSE i \in S : \A j \in S : i <= j
       IN << k >> \o Ascending(S \ {k})

\* assignments written as a row ledger, the card on discard left in the pool
RowForm(asg) ==
  [front  |-> Ascending({i \in DOMAIN asg : asg[i] = "front"}),
   middle |-> Ascending({i \in DOMAIN asg : asg[i] = "middle"}),
   back   |-> Ascending({i \in DOMAIN asg : asg[i] = "back"})]

(* C16: for the same draw hand and the same two row placements the row variant
   (third card left in the pool) and the zone and button variants (third card
   on discard) send the same set of (card index, destination) pairs. *)
C16_SameSubmissionEitherWay ==
  /\ (variant = "row" /\ TwoOnRowsOneFree /\ JustSent)
       => Range(lastEvent.placements) =
            Range(buildPlacementsZone(ExplicitForm(boardPlacements, currentCards)))
  /\ (ExplicitDiscard /\ JustSent)
       => Range(lastEvent.placements) =
            Range(buildPlacementsRow(RowForm(assignments), currentCards, FALSE))

\* the row variant has sent a draw hand whose first card is on a row, and so has
\* auto-discarded a later one
C16_Witness ==
  /\ variant = "row" /\ TwoOnRowsOneFree /\ JustSent
  /\ 0 \in LedgerKeys
  /\ \E k \in 1..Len(lastEvent.placements) : lastEvent.placements[k].row = "discard"

(* ======================= after the submission ========================= *)
\* the game_over state of the server was the last thing applied
GameOverApplied == lastEvent.op = "applyState" /\ lastEvent.state.phase = "game_over"

(* C17: in the game_over phase the ledger holds no entries, so that on every row
   the cards of the final server board plus the pending entries do not exceed
   the row's capacity. *)
C17_NoPendingAfterGameOver ==
  GameOverApplied
    => /\ LedgerKeys = {}
       /\ \A r \in RowSet : PendingCount(r) + Committed(r) <= RowMax(r)

(* ============================ discard ================================= *)
\* the entries of the list just sent whose destination is discard
DiscardsSent ==
  Cardinality({k \in 1..Len(lastEvent.placements) :
                 lastEvent.placements[k].row = "discard"})

(* C18: every placements list sent for a draw turn contains exactly one entry
   whose destination is discard, and every list sent for an opening turn
   contains none. *)
C18_OneDiscardPerDrawSubmission ==
  JustSent => DiscardsSent = (IF isInitial THEN 0 ELSE 1)

(* C19: during an opening turn no ledger entry has the destination discard,
   also when the opening turn follows a draw turn of an earlier game. *)
C19_NoDiscardOnOpening ==
  (isInitial /\ InTurn) => PendingCount("discard") = 0

\* the opening hand of the second game is in the ledger, placed by gestures on
\* zones or row buttons built for that hand
C19_Witness ==
  /\ variant # "row" /\ isInitial /\ InTurn
  /\ gameId = 2 /\ currentCards = OpeningHand(2)
  /\ lastEvent.op \in GestureOps
  /\ DOMAIN assignments = Indices(currentCards)

(* ================================ moves =============================== *)
\* index i is on destination d
OnDestination(i, d) ==
  IF variant = "row"
  THEN d \in RowSet /\ i \in Range(boardPlacements[d])
  ELSE i \in DOMAIN assignments /\ assignments[i] = d

\* entries of the ledger, an index counted once for every place it is in
TotalPending ==
  PendingCount("front") + PendingCount("middle") + PendingCount("back")
    + PendingCount("discard")

\* the gesture that places index idx on destination d
PlaceOn(idx, d) ==
  \/ d \in RowSet /\ PlaceCardOnRow(idx, d)
  \/ MoveCard(idx, d)
  \/ AssignCard(idx, d)

(* C20: placing an index that is on destination d1 onto another destination d2
   (the handler accepts it when d2 has free capacity) is a move done in one
   step: the step is the gesture for that index and d2, afterwards the index is
   on d2 only, d1 holds one entry less, d2 one more, and the number of placed
   cards is unchanged. *)
C20_ReassignIsAtomicMove ==
  [][ lastEvent'.moved =>
        \E idx \in LedgerKeys : \E d1, d2 \in Destinations :
          /\ d1 # d2
          /\ OnDestination(idx, d1)
          /\ OnDestination(idx, d2)'
          /\ PlaceOn(idx, d2)
          /\ \A d \in Destinations : OnDestination(idx, d)' <=> (d = d2)
          /\ PendingCount(d1)' = PendingCount(d1) - 1
          /\ PendingCount(d2)' = PendingCount(d2) + 1
          /\ TotalPending' = TotalPending
          /\ Cardinality(LedgerKeys)' = Cardinality(LedgerKeys) ]_vars

\* a gesture has just moved a card between two rows of a ledger that holds the
\* whole opening hand
C20_Witness ==
  /\ lastEvent.op \in GestureOps /\ lastEvent.moved
  /\ isInitial /\ LedgerKeys = Indices(currentCards)
  /\ TotalPending = OpeningHandSize

(* ========================== return to the pool ======================== *)
\* the gesture that returns index idx to the pool (the button variant has none)
ReturnToPool(idx) ==
  \/ ReturnCardToHand(idx)
  \/ MoveCard(idx, "pool")

(* C21: returning an index to the pool always succeeds: afterwards the index is
   not in the ledger and every other index is where it was, so that the ledger
   is unchanged when the index was not placed. *)
C21_ReturnRemovesOnlyThatIndex ==
  [][ (lastEvent'.op \in {"returnCardToHand", "moveCard"} /\ ~lastEvent'.moved) =>
        \A idx \in 0..(OpeningHandSize - 1) :
          ReturnToPool(idx)
            => /\ ~lastEvent'.rejected
               /\ LedgerKeys' = LedgerKeys \ {idx}
               /\ \A j \in LedgerKeys \ {idx} : \A d \in Destinations :
                     OnDestination(j, d)' <=> OnDestination(j, d) ]_vars

\* a gesture has just taken a placed card back to the pool and other cards are
\* still placed
C21_Witness ==
  /\ lastEvent.op \in {"returnCardToHand", "moveCard"} /\ lastEvent.returned
  /\ InTurn /\ LedgerKeys # {}
  /\ LedgerKeys # Indices(currentCards)

(* ========================= the confirm control ======================== *)
\* the ledger may be submitted: the count of the row variant, the verdict of
\* validateAssignments in the other two
LedgerSubmittable ==
  CASE variant = "row" ->
         totalPlaced(boardPlacements) = required(isInitial, currentCards)
    [] variant = "zone" ->
         validateAssignmentsZone(assignments, currentCards, isInitial).ok
    [] OTHER -> validateAssignmentsButton(assignments, currentCards, isInitial).ok

(* C22: between handlers the confirm control is enabled if and only if a turn is
   being placed and its ledger is submittable, also right after the answer to a
   rejected or failed submission has re-enabled the control. *)
C22_ConfirmEnabledIffSubmittable ==
  ~btnDisabled <=> (BeingPlaced /\ LedgerSubmittable)

(* ============================ no dead end ============================= *)
\* free slots of the three rows after the cards of earlier turns
FreeSlots ==
  (RowMax("front") - playerBoard.front) + (RowMax("middle") - playerBoard.middle)
    + (RowMax("back") - playerBoard.back)

\* the server board leaves enough free row slots for the dealt hand
EnoughRoom == FreeSlots >= required(isInitial, currentCards)

\* one place or return-to-pool gesture
GestureStep ==
  \E idx \in 0..(OpeningHandSize - 1) :
    \/ \E d \in Destinations : PlaceOn(idx, d)
    \/ ReturnToPool(idx)

\* the step changes the ledger
LedgerChanges ==
  << boardPlacements, assignments >>' # << boardPlacements, assignments >>

(* C23: no gesture sequence leaves a turn in a dead end: while a turn is being
   placed on a board with enough free slots and its ledger is not submittable,
   some place or return-to-pool gesture that changes the ledger is possible (a
   consequence of the claim that a finite sequence of them leads to a
   submittable ledger). *)
C23_NoDeadEnd ==
  (BeingPlaced /\ EnoughRoom /\ ~LedgerSubmittable)
    => ENABLED (GestureStep /\ LedgerChanges)

(* ======================= the running global score ==================== *)
\* the sum of the scores of the game_over answers in the bag B
SumScores(B) ==
  LET RECURSIVE Sum(_)
      Sum(S) == IF S = {} THEN NoScore
                ELSE LET g == CHOOSE x \in S : TRUE
                         rest == Sum(S \ {g})
                     IN [player |-> CopiesIn(g, B) * Scores(g).player + rest.player,
                         ai |-> CopiesIn(g, B) * Scores(g).ai + rest.ai]
  IN Sum(BagToSet(B))

\* the step applies a game_over answer
GameOverStep ==
  \E req \in BagToSet(inflight) : \E state \in PlayStates(req.game_id) :
    state.phase = "game_over" /\ PlayResponseTo(req, state)

(* C24: the running global score changes only when a game_over answer is applied
   (or resetGlobalScore clears it), every finished game is counted once, and the
   score is the sum of the player and AI scores of the game_over answers applied
   since the last resetGlobalScore, on top of the total the page found stored
   when no reset has happened since it was loaded. *)
C24_ScoreIsSumOfAppliedGameOvers ==
  /\ [](variant = "row" =>
          /\ globalScore = [player |-> carried.player + SumScores(applied).player,
                            ai |-> carried.ai + SumScores(applied).ai]
          /\ \A g \in BagToSet(applied) : CopiesIn(g, applied) = 1)
  /\ [][ globalScore' # globalScore => (GameOverStep \/ ResetGlobalScore) ]_vars

====
